---- MODULE Spec2Model ----
(***************************************************************************)
(* Model of the two scene components of the 3d-demo repository:            *)
(*   src/src/app/curtain/CurtainScene.tsx  (scroll-driven curtains)        *)
(*   src/src/app/cloth/ClothScene.tsx      (hinge/motor-driven cloth)      *)
(*                                                                         *)
(* One behaviour mounts one of the two pages.  The closure variables of    *)
(* the mounted effect, the window/document state it touches and a few      *)
(* history variables are the state.  Every handler of the source (effect   *)
(* body, promise continuation, event listener, animation frame, effect     *)
(* cleanup) is one atomic action: JavaScript runs each of them to          *)
(* completion on one thread.                                               *)
(*                                                                         *)
(* Numbers are exact rationals <<n, d>> (d > 0, lowest terms).             *)
(***************************************************************************)
EXTENDS Integers, Sequences, FiniteSets, Bags, TLC

(* ----------------------------- rationals ------------------------------ *)
Abs(n) == IF n < 0 THEN 0 - n ELSE n

RECURSIVE GCD(_, _)
GCD(a, b) == IF b = 0 THEN a ELSE GCD(b, a % b)

Norm(n, d) ==
  LET g == GCD(Abs(n), Abs(d))
      s == IF d < 0 THEN 0 - 1 ELSE 1
  IN  <<(s * n) \div g, (s * d) \div g>>

R(n, d) == Norm(n, d)
I(n) == <<n, 1>>
RAdd(a, b) == Norm(a[1] * b[2] + b[1] * a[2], a[2] * b[2])
RSub(a, b) == Norm(a[1] * b[2] - b[1] * a[2], a[2] * b[2])
RMul(a, b) == Norm(a[1] * b[1], a[2] * b[2])
RDiv(a, b) == Norm(a[1] * b[2], a[2] * b[1])
RNeg(a) == <<0 - a[1], a[2]>>
RLe(a, b) == a[1] * b[2] <= b[1] * a[2]
RLt(a, b) == a[1] * b[2] < b[1] * a[2]
RMax(a, b) == IF RLe(a, b) THEN b ELSE a
RMin(a, b) == IF RLe(a, b) THEN a ELSE b
RPow3(a) == RMul(a, RMul(a, a))

(* ------------------------------ nullables ----------------------------- *)
Null == <<>>
Some(v) == <<v>>
IsNull(x) == x = <<>>
Val(x) == x[1]

(* ----------------------- program constants ---------------------------- *)
maxScrollPx == 600
tinyAssistForce == 3
cameraFov == 60
cameraZ == 8
subSteps == 10
assistCols == 2
clothWidth == 4
clothHeight == 3

(* tan(60 deg / 2) = 1/sqrt(3), taken at its continued-fraction convergent *)
(* 153/265 = 0.577358 (1/sqrt(3) = 0.577350).                              *)
TanHalfFov == R(153, 265)
(* yTop = viewH / 2 - 0.2 *)
TopInset == R(1, 5)
(* enableAngularMotor(true, 0.8 * armMovement, 50) *)
MotorSpeed == R(4, 5)

(* ------------------------------ bounds -------------------------------- *)
\* patch subdivisions (40 x 50 in the curtain scene, scaled down)
segX == 2
segY == 2
\* cloth segments per unit of cloth width/height (5 in the cloth scene)
SegPerUnit == 1
\* frames (executions of animate) per behaviour
MaxFrames == 2
\* scroll offsets offered to the scroll event: k * maxScrollPx / 4, k in -1..MaxScrollK
\* (negative: overscroll; 5 * maxScrollPx / 4: beyond the travel)
MaxScrollK == 5
\* the grid k / EaseGridN, k in 0..EaseGridN, of control signals on which the
\* ease function is tabulated
EaseGridN == 8
\* the brick wall of the cloth scene (6 bricks long, 8 rows high, scaled down)
numBricksLength == 1
numBricksHeight == 2

\* window.scrollY is a double: 599.999 is a fractional offset (zoom, high-DPI
\* display) just short of the travel
ScrollNearEnd == R(599999, 1000)
ScrollYs == {R(k * maxScrollPx, 4) : k \in (0 - 1)..MaxScrollK} \cup {ScrollNearEnd}
EaseGrid == {R(k, EaseGridN) : k \in 0..EaseGridN}
WindowSizes == {<<800, 600>>, <<1200, 600>>}
KeyCodes == {"KeyQ", "KeyA", "KeyZ"}
Pages == {"curtain", "cloth"}

clothNumSegmentsZ == clothWidth * SegPerUnit
clothNumSegmentsY == clothHeight * SegPerUnit

VARIABLES
  \* --- which page is mounted, and the environment (window, document, React)
  page, containerAttached, innerWidth, innerHeight, scrollY,
  scriptTag, scriptDefinesAmmo, windowAmmo, listeners, rafPending,
  \* --- the async boot of the effect
  pc, scriptPromise, ammoPromise, cleanedUp, bootError,
  \* --- closure variables both scenes declare
  renderer, rendererObj, scene, camera, AmmoLib, physicsWorld,
  \* --- CurtainScene closure variables
  leftCloth, rightCloth, leftPosAttr, rightPosAttr,
  leftRodMesh, rightRodMesh, leftRodStartX, rightRodStartX, slideDistance,
  scrollProgress,
  \* --- ClothScene closure variables
  hinge, armMovement, cloth, clothPosAttr, rigidBodies,
  \* --- history (observations of the run, not program state)
  frames, frameLog, frameC, frameT, stepForce, rafAfterCleanup, frameThrew,
  lastKey, rodUnsettledAtStep, firstFrame

vars == <<page, containerAttached, innerWidth, innerHeight, scrollY,
          scriptTag, scriptDefinesAmmo, windowAmmo, listeners, rafPending,
          pc, scriptPromise, ammoPromise, cleanedUp, bootError,
          renderer, rendererObj, scene, camera, AmmoLib, physicsWorld,
          leftCloth, rightCloth, leftPosAttr, rightPosAttr,
          leftRodMesh, rightRodMesh, leftRodStartX, rightRodStartX,
          slideDistance, scrollProgress,
          hinge, armMovement, cloth, clothPosAttr, rigidBodies,
          frames, frameLog, frameC, frameT, stepForce, rafAfterCleanup,
          frameThrew, lastKey, rodUnsettledAtStep, firstFrame>>

(* The whole state as one record, so that the statements of a handler can  *)
(* be composed in program order; Commit writes a record back.              *)
World ==
  [page |-> page, containerAttached |-> containerAttached,
   innerWidth |-> innerWidth, innerHeight |-> innerHeight, scrollY |-> scrollY,
   scriptTag |-> scriptTag, scriptDefinesAmmo |-> scriptDefinesAmmo,
   windowAmmo |-> windowAmmo, listeners |-> listeners, rafPending |-> rafPending,
   pc |-> pc, scriptPromise |-> scriptPromise, ammoPromise |-> ammoPromise,
   cleanedUp |-> cleanedUp, bootError |-> bootError,
   renderer |-> renderer, rendererObj |-> rendererObj, scene |-> scene,
   camera |-> camera, AmmoLib |-> AmmoLib, physicsWorld |-> physicsWorld,
   leftCloth |-> leftCloth, rightCloth |-> rightCloth,
   leftPosAttr |-> leftPosAttr, rightPosAttr |-> rightPosAttr,
   leftRodMesh |-> leftRodMesh, rightRodMesh |-> rightRodMesh,
   leftRodStartX |-> leftRodStartX, rightRodStartX |-> rightRodStartX,
   slideDistance |-> slideDistance, scrollProgress |-> scrollProgress,
   hinge |-> hinge, armMovement |-> armMovement, cloth |-> cloth,
   clothPosAttr |-> clothPosAttr, rigidBodies |-> rigidBodies,
   frames |-> frames, frameLog |-> frameLog, frameC |-> frameC,
   frameT |-> frameT, stepForce |-> stepForce,
   rafAfterCleanup |-> rafAfterCleanup, frameThrew |-> frameThrew,
   lastKey |-> lastKey, rodUnsettledAtStep |-> rodUnsettledAtStep,
   firstFrame |-> firstFrame,
   thrown |-> "none"]

Commit(w) ==
  /\ page' = w.page /\ containerAttached' = w.containerAttached
  /\ innerWidth' = w.innerWidth /\ innerHeight' = w.innerHeight
  /\ scrollY' = w.scrollY /\ scriptTag' = w.scriptTag
  /\ scriptDefinesAmmo' = w.scriptDefinesAmmo /\ windowAmmo' = w.windowAmmo
  /\ listeners' = w.listeners /\ rafPending' = w.rafPending
  /\ pc' = w.pc /\ scriptPromise' = w.scriptPromise
  /\ ammoPromise' = w.ammoPromise /\ cleanedUp' = w.cleanedUp
  /\ bootError' = w.bootError
  /\ renderer' = w.renderer /\ rendererObj' = w.rendererObj
  /\ scene' = w.scene /\ camera' = w.camera /\ AmmoLib' = w.AmmoLib
  /\ physicsWorld' = w.physicsWorld
  /\ leftCloth' = w.leftCloth /\ rightCloth' = w.rightCloth
  /\ leftPosAttr' = w.leftPosAttr /\ rightPosAttr' = w.rightPosAttr
  /\ leftRodMesh' = w.leftRodMesh /\ rightRodMesh' = w.rightRodMesh
  /\ leftRodStartX' = w.leftRodStartX /\ rightRodStartX' = w.rightRodStartX
  /\ slideDistance' = w.slideDistance /\ scrollProgress' = w.scrollProgress
  /\ hinge' = w.hinge /\ armMovement' = w.armMovement /\ cloth' = w.cloth
  /\ clothPosAttr' = w.clothPosAttr /\ rigidBodies' = w.rigidBodies
  /\ frames' = w.frames /\ frameLog' = w.frameLog /\ frameC' = w.frameC
  /\ frameT' = w.frameT /\ stepForce' = w.stepForce
  /\ rafAfterCleanup' = w.rafAfterCleanup /\ frameThrew' = w.frameThrew
  /\ lastKey' = w.lastKey /\ rodUnsettledAtStep' = w.rodUnsettledAtStep
  /\ firstFrame' = w.firstFrame

\* run F on w unless an earlier statement has thrown
Then(w, F(_)) == IF w.thrown # "none" THEN w ELSE F(w)

(* --------------------- external libraries (as used) -------------------- *)
\* THREE.PlaneGeometry(width, height, wSeg, hSeg) followed by
\* geometry.translate(tx, ty, 0): the flat position array, row by row from
\* the top, index (iy * (wSeg + 1) + ix) * 3 + axis.
PlaneArray(width, height, wSeg, hSeg, tx, ty) ==
  [k \in 0..(3 * (wSeg + 1) * (hSeg + 1) - 1) |->
     LET i == k \div 3
         ix == i % (wSeg + 1)
         iy == i \div (wSeg + 1)
     IN  CASE k % 3 = 0 ->
                RAdd(RSub(RDiv(RMul(I(ix), width), I(wSeg)), RDiv(width, I(2))), tx)
           [] k % 3 = 1 ->
                RAdd(RSub(RDiv(height, I(2)), RDiv(RMul(I(iy), height), I(hSeg))), ty)
           [] OTHER -> I(0)]

\* The same plane after geometry.rotateY(PI / 2) and translate(tx, ty, tz):
\* (x, y, 0) becomes (0, y, -x), then the translation is added.
RotatedPlaneArray(width, height, wSeg, hSeg, tx, ty, tz) ==
  [k \in 0..(3 * (wSeg + 1) * (hSeg + 1) - 1) |->
     LET i == k \div 3
         ix == i % (wSeg + 1)
         iy == i \div (wSeg + 1)
         x == RSub(RDiv(RMul(I(ix), width), I(wSeg)), RDiv(width, I(2)))
     IN  CASE k % 3 = 0 -> tx
           [] k % 3 = 1 ->
                RAdd(RSub(RDiv(height, I(2)), RDiv(RMul(I(iy), height), I(hSeg))), ty)
           [] OTHER -> RAdd(RNeg(x), tz)]

Lerp(a, b, n, d) == RAdd(a, RDiv(RMul(RSub(b, a), I(n)), I(d)))

\* btSoftBodyHelpers.CreatePatch(worldInfo, c00, c01, c10, c11, resx, resy, 0, true):
\* resx * resy nodes, node iy * resx + ix bilinearly between the corners,
\* no force accumulated, no anchors yet.
CreatePatch(c00, c01, c10, c11, resx, resy) ==
  [x |-> [i \in 0..(resx * resy - 1) |->
            LET ix == i % resx
                iy == i \div resx
            IN  [a \in 1..3 |->
                   Lerp(Lerp(c00[a], c10[a], iy, resy - 1),
                        Lerp(c01[a], c11[a], iy, resy - 1), ix, resx - 1)]],
   f |-> [i \in 0..(resx * resy - 1) |-> I(0)],
   anchors |-> {}]

Sgn(r) == IF r[1] > 0 THEN 1 ELSE IF r[1] < 0 THEN 0 - 1 ELSE 0

\* What one physicsWorld.stepSimulation does to a soft body, as far as the
\* scenes can observe it: every node gets a new position (here: anchored
\* nodes stay with their anchor, the others fall by one unit and are pushed
\* one unit along the accumulated force), and the accumulated forces are
\* consumed.  The solver itself is outside the repository.
StepSoft(soft) ==
  [soft EXCEPT
     !.x = [i \in DOMAIN soft.x |->
              IF i \in soft.anchors THEN soft.x[i]
              ELSE <<RAdd(soft.x[i][1], I(Sgn(soft.f[i]))),
                     RSub(soft.x[i][2], I(1)),
                     soft.x[i][3]>>],
     !.f = [i \in DOMAIN soft.f |-> I(0)]]

StepMesh(mesh) ==
  IF IsNull(mesh) \/ IsNull(Val(mesh).physicsBody) THEN mesh
  ELSE Some([Val(mesh) EXCEPT !.physicsBody = Some(StepSoft(Val(@)))])

\* What one stepSimulation does to the dynamic rigid bodies, as far as the
\* scene can observe it: the wall rests, the arm turns by one unit in the
\* direction of the hinge motor's target.
StepRigid(bodies, h) ==
  [i \in DOMAIN bodies |->
     IF bodies[i].kind = "arm" /\ ~IsNull(h) /\ Val(h).motorEnabled
     THEN [bodies[i] EXCEPT !.bodyPose.turn = @ + Sgn(Val(h).motorTarget)]
     ELSE bodies[i]]

(* ------------------------- CurtainScene.tsx ---------------------------- *)
\* mutant: the upper clamp is missing
Clamp01_NoUpper(v) == RMax(I(0), v)

Clamp01(v) == RMax(I(0), RMin(I(1), v))

\* mutant: the leading "1 -" is missing
easeOutCubic_NoFlip(t) == RPow3(RSub(I(1), t))

\* 1 - Math.pow(1 - t, 3) in IEEE doubles: for 1 - t <= 2^-18 the cube is at
\* most 2^-54, half the gap between 1 and the double below it, and the
\* subtraction rounds to 1 exactly; elsewhere the exact value stands for the
\* double next to it
OneMinusRoundsToOne == R(1, 262144)

easeOutCubic(t) ==
  IF RLe(RSub(I(1), t), OneMinusRoundsToOne) THEN I(1)
  ELSE RSub(I(1), RPow3(RSub(I(1), t)))

Log(w, what) == [w EXCEPT !.frameLog = Append(@, what)]

assertReady(w) ==
  IF IsNull(w.scene) \/ IsNull(w.camera) \/ IsNull(w.renderer)
  THEN [w EXCEPT !.thrown = "Graphics not ready"]
  ELSE w

onResize(w) ==
  IF IsNull(w.renderer) \/ IsNull(w.camera) THEN w
  ELSE [w EXCEPT
          !.camera = Some([Val(@) EXCEPT !.aspect = R(w.innerWidth, w.innerHeight)]),
          !.rendererObj.size = <<w.innerWidth, w.innerHeight>>]

onScroll(w) ==
  LET y == w.scrollY
  IN  [w EXCEPT !.scrollProgress = Clamp01(RDiv(y, I(maxScrollPx)))]

NewRenderer(w) ==
  [created |-> TRUE, disposed |-> FALSE, size |-> <<w.innerWidth, w.innerHeight>>,
   opacity |-> "", inDom |-> FALSE, presented |-> FALSE]

Curtain_initGraphics(w) ==
  IF ~w.containerAttached THEN w
  ELSE [w EXCEPT
          !.scene = Some(SetToBag({"ambient", "dir"})),
          !.camera = Some([fov |-> cameraFov,
                           aspect |-> R(w.innerWidth, w.innerHeight),
                           z |-> cameraZ]),
          !.renderer = Some("gl"),
          !.rendererObj = [NewRenderer(w) EXCEPT !.inDom = TRUE],
          !.listeners = @ \cup {"resize", "scroll"}]

Curtain_initPhysics(w) ==
  [w EXCEPT !.physicsWorld = Some([steps |-> 0, maxSubSteps |-> 0, softBodies |-> 0])]

\* called only after assertReady has passed
computeViewSize(w) ==
  LET dist == I(Val(w.camera).z)
      viewH == RMul(RMul(I(2), TanHalfFov), dist)
      viewW == RMul(viewH, Val(w.camera).aspect)
  IN  [viewW |-> viewW, viewH |-> viewH]

\* the mesh createRod returns (the rigid body only when Ammo is there)
createRod(w, xCenter, y, length) ==
  [x |-> xCenter, y |-> y, length |-> length,
   physicsBody |->
     IF ~w.AmmoLib THEN Null
     ELSE Some([x |-> xCenter, linVel |-> 0, angVel |-> 0, active |-> FALSE,
                calls |-> <<>>])]

makePatch(xLeft, xRight, yTop, viewH) ==
  LET yBottom == RSub(yTop, viewH)
  IN  CreatePatch(<<xLeft, yTop, I(0)>>, <<xRight, yTop, I(0)>>,
                  <<xLeft, yBottom, I(0)>>, <<xRight, yBottom, I(0)>>,
                  segX + 1, segY + 1)

anchorRow(soft, rodMesh) ==
  IF IsNull(rodMesh) THEN soft
  ELSE [soft EXCEPT !.anchors = @ \cup 0..segX]

\* createCurtains up to if (!AmmoLib) return: the rods and the two planes;
\* vs is what computeViewSize returned
staticCurtains(w, vs) ==
  LET half == RDiv(vs.viewW, I(2))
      yTop == RSub(RDiv(vs.viewH, I(2)), TopInset)
      lx == RNeg(RDiv(half, I(2)))
      rx == RDiv(half, I(2))
      mk(xShift) ==
        PlaneArray(half, vs.viewH, segX, segY, xShift,
                   RSub(yTop, RDiv(vs.viewH, I(2))))
  IN  [w EXCEPT
         !.slideDistance = RMul(vs.viewW, I(5)),
         !.leftRodMesh = Some(createRod(w, lx, yTop, half)),
         !.rightRodMesh = Some(createRod(w, rx, yTop, half)),
         !.leftRodStartX = lx,
         !.rightRodStartX = rx,
         !.scene = Some(Val(@) (+) SetToBag({"leftRod", "rightRod",
                                             "leftCloth", "rightCloth"})),
         !.leftCloth = Some([physicsBody |-> Null]),
         !.rightCloth = Some([physicsBody |-> Null]),
         !.leftPosAttr = Some([array |-> mk(lx), needsUpdate |-> FALSE]),
         !.rightPosAttr = Some([array |-> mk(rx), needsUpdate |-> FALSE])]

\* the rest of createCurtains: the two soft bodies, registered with the
\* world and anchored to the rods (physicsWorld.addRigidBody of createRod is
\* the first call on the world)
softCurtains(w, vs) ==
  IF ~w.AmmoLib THEN w
  ELSE IF IsNull(w.physicsWorld) THEN [w EXCEPT !.thrown = "TypeError"]
  ELSE
    LET half == RDiv(vs.viewW, I(2))
        yTop == RSub(RDiv(vs.viewH, I(2)), TopInset)
        leftSoft == makePatch(RNeg(half), I(0), yTop, vs.viewH)
        rightSoft == makePatch(I(0), half, yTop, vs.viewH)
    IN  [w EXCEPT
           !.physicsWorld = Some([Val(@) EXCEPT !.softBodies = @ + 2]),
           !.leftCloth =
              Some([physicsBody |-> Some(anchorRow(leftSoft, w.leftRodMesh))]),
           !.rightCloth =
              Some([physicsBody |-> Some(anchorRow(rightSoft, w.rightRodMesh))])]

layoutCurtains(w) ==
  softCurtains(staticCurtains(w, computeViewSize(w)), computeViewSize(w))

createCurtains(w0) == Then(assertReady(w0), layoutCurtains)

\* mutant: the direction is dropped, both rods slide the same way
TargetX_NoDir(startX, dir, slide, t) == RAdd(startX, RMul(slide, t))

TargetX(startX, dir, slide, t) == RAdd(startX, RMul(RMul(I(dir), slide), t))

\* The four calls moveRod makes on a rod's rigid body, each as what it does
\* to the body; calls is the list of calls made on the body since the world
\* was last stepped.
setWorldTransform(body, x) ==
  [body EXCEPT !.x = x, !.calls = Append(@, "setWorldTransform")]

setLinearVelocity(body, v) ==
  [body EXCEPT !.linVel = v, !.calls = Append(@, "setLinearVelocity")]

setAngularVelocity(body, v) ==
  [body EXCEPT !.angVel = v, !.calls = Append(@, "setAngularVelocity")]

activate(body) ==
  [body EXCEPT !.active = TRUE, !.calls = Append(@, "activate")]

\* mutant: the pose is overwritten and the body woken, the velocities are
\* left as they were
syncRodBody_KeepVelocity(body, targetX) ==
  activate(setWorldTransform(body, targetX))

\* the block under if (body && AmmoLib) of moveRod
syncRodBody(body, targetX) ==
  activate(setAngularVelocity(setLinearVelocity(setWorldTransform(body, targetX),
                                                0), 0))

\* moveRod(mesh, startX, dir) of animate; field names the closure variable
\* that holds the mesh
moveRod(w, field, startX, dir, t) ==
  IF IsNull(w[field]) THEN w
  ELSE
    LET mesh == Val(w[field])
        targetX == TargetX(startX, dir, w.slideDistance, t)
        body == mesh.physicsBody
        body2 == IF ~IsNull(body) /\ w.AmmoLib
                 THEN Some(syncRodBody(Val(body), targetX))
                 ELSE body
    IN  [w EXCEPT ![field] = Some([mesh EXCEPT !.x = targetX, !.physicsBody = body2])]

\* the node indexes applyAssist touches, in loop order irrelevant: each once
AssistIdx(side) ==
  {(IF side = "left" THEN c ELSE segX - c) + y * (segX + 1) :
     c \in 0..(assistCols - 1), y \in 0..segY}

applyAssist(soft, side, t) ==
  LET fx == IF side = "left" THEN RNeg(RMul(I(tinyAssistForce), t))
            ELSE RMul(I(tinyAssistForce), t)
  IN  [soft EXCEPT !.f = [i \in DOMAIN soft.f |->
                            IF i \in AssistIdx(side) THEN RAdd(soft.f[i], fx)
                            ELSE soft.f[i]]]

\* soft.get_m_nodes() on a mesh without a physics body is a TypeError
assistMesh(w, field, side, t) ==
  IF IsNull(w[field]) THEN w
  ELSE IF IsNull(Val(w[field]).physicsBody) THEN [w EXCEPT !.thrown = "TypeError"]
  ELSE [w EXCEPT ![field] =
          Some([physicsBody |-> Some(applyAssist(Val(Val(w[field]).physicsBody), side, t))])]

\* for (i = 0; i < numVerts; i++) { arr[i3++] = x; arr[i3++] = y; arr[i3++] = z }
\* mutant: the loop stops one vertex early
RECURSIVE SyncLoop_OffByOne(_, _, _, _, _)
SyncLoop_OffByOne(arr, nodes, i, i3, numVerts) ==
  IF i < numVerts - 1
  THEN SyncLoop_OffByOne([arr EXCEPT ![i3] = nodes[i][1], ![i3 + 1] = nodes[i][2],
                                     ![i3 + 2] = nodes[i][3]],
                         nodes, i + 1, i3 + 3, numVerts)
  ELSE arr

RECURSIVE SyncLoop(_, _, _, _, _)
SyncLoop(arr, nodes, i, i3, numVerts) ==
  IF i < numVerts
  THEN SyncLoop([arr EXCEPT ![i3] = nodes[i][1], ![i3 + 1] = nodes[i][2],
                            ![i3 + 2] = nodes[i][3]],
                nodes, i + 1, i3 + 3, numVerts)
  ELSE arr

ArrLen(arr) == Cardinality(DOMAIN arr)

\* sync(mesh, attr) of the curtain scene and the cloth block of the cloth scene
sync(w, meshField, attrField) ==
  IF IsNull(w[meshField]) \/ IsNull(w[attrField]) THEN w
  ELSE IF IsNull(Val(w[meshField]).physicsBody) THEN [w EXCEPT !.thrown = "TypeError"]
  ELSE
    LET soft == Val(Val(w[meshField]).physicsBody)
        arr == Val(w[attrField]).array
        numVerts == ArrLen(arr) \div 3
    IN  [w EXCEPT ![attrField] =
           Some([array |-> SyncLoop(arr, soft.x, 0, 0, numVerts), needsUpdate |-> TRUE])]

NodeForce(mesh, i) ==
  IF IsNull(mesh) \/ IsNull(Val(mesh).physicsBody) THEN I(0)
  ELSE Val(Val(mesh).physicsBody).f[i]

\* a rod body whose pose was overwritten since the last step is settled when
\* each overwrite was followed by a zeroing of both velocities and an
\* activation, and the body is at rest and awake
RodSettled(body) ==
  /\ \A i \in DOMAIN body.calls :
        body.calls[i] = "setWorldTransform" =>
          \A c \in {"setLinearVelocity", "setAngularVelocity", "activate"} :
            \E j \in (i + 1)..Len(body.calls) : body.calls[j] = c
  /\ (\E i \in DOMAIN body.calls : body.calls[i] = "setWorldTransform") =>
        body.linVel = 0 /\ body.angVel = 0 /\ body.active

RodMeshSettled(mesh) ==
  IsNull(mesh) \/ IsNull(Val(mesh).physicsBody)
    \/ RodSettled(Val(Val(mesh).physicsBody))

\* the world has consumed the pose of a rod: its list of calls starts anew
StepRod(mesh) ==
  IF IsNull(mesh) \/ IsNull(Val(mesh).physicsBody) THEN mesh
  ELSE Some([Val(mesh) EXCEPT !.physicsBody = Some([Val(@) EXCEPT !.calls = <<>>])])

stepSimulation(w) ==
  [w EXCEPT !.physicsWorld = Some([Val(@) EXCEPT !.steps = @ + 1,
                                                 !.maxSubSteps = subSteps]),
            !.stepForce = NodeForce(w.leftCloth, 0),
            !.rodUnsettledAtStep =
               @ \/ ~RodMeshSettled(w.leftRodMesh) \/ ~RodMeshSettled(w.rightRodMesh),
            !.leftRodMesh = StepRod(@),
            !.rightRodMesh = StepRod(@),
            !.leftCloth = StepMesh(@),
            !.rightCloth = StepMesh(@),
            !.cloth = StepMesh(@),
            !.rigidBodies = StepRigid(@, w.hinge)]

requestAnimationFrame(w) ==
  Log([w EXCEPT !.rafPending = TRUE,
                !.rafAfterCleanup = @ \/ w.cleanedUp], "schedule")

render(w) ==
  IF IsNull(w.renderer) THEN [w EXCEPT !.thrown = "TypeError"]
  ELSE Log([w EXCEPT !.rendererObj.presented = TRUE], "present")

\* the block under if (physicsWorld && AmmoLib) of the curtain animate
Curtain_assist(w, t) ==
  IF tinyAssistForce > 0
  THEN Then(Then(w, LAMBDA v : assistMesh(v, "leftCloth", "left", t)),
            LAMBDA v : Log(assistMesh(v, "rightCloth", "right", t), "assist"))
  ELSE w

Curtain_physics(w, t) ==
  Then(Then(Curtain_assist(Log(stepSimulation(w), "step"), t),
            LAMBDA v : sync(v, "leftCloth", "leftPosAttr")),
       LAMBDA v : Log(sync(v, "rightCloth", "rightPosAttr"), "sync"))

Opacity(t) == IF RLe(I(1), t) THEN "0" ELSE "1"

\* what the first execution of the frame callback finds
ObserveFirstFrame(w) ==
  IF w.frames > 0 THEN w
  ELSE [w EXCEPT !.firstFrame =
          Some([world |-> ~IsNull(w.physicsWorld),
                softBodies |-> IF IsNull(w.physicsWorld) THEN 0
                               ELSE Val(w.physicsWorld).softBodies,
                patches |-> IF w.page = "curtain"
                            THEN ~IsNull(w.leftCloth) /\ ~IsNull(w.rightCloth)
                            ELSE ~IsNull(w.cloth)])]

\* a new execution of the frame callback begins
BeginFrame(w) ==
  [ObserveFirstFrame(w) EXCEPT !.frames = @ + 1, !.frameLog = <<>>]

Curtain_sample(w, t) ==
  Log([w EXCEPT !.frameC = w.scrollProgress, !.frameT = t], "sample")

Curtain_rods(w, t) ==
  Log(moveRod(moveRod(w, "leftRodMesh", w.leftRodStartX, 0 - 1, t),
              "rightRodMesh", w.rightRodStartX, 1, t), "rods")

Curtain_step(w, t) ==
  IF ~IsNull(w.physicsWorld) /\ w.AmmoLib THEN Curtain_physics(w, t) ELSE w

Curtain_fade(w, t) ==
  IF ~IsNull(w.renderer) THEN [w EXCEPT !.rendererObj.opacity = Opacity(t)] ELSE w

\* animate past its guard, t being easeOutCubic(scrollProgress)
Curtain_frame(w, t) ==
  Then(Then(Then(Curtain_step(Curtain_rods(Curtain_sample(w, t), t), t),
                 LAMBDA v : Curtain_fade(v, t)), render), requestAnimationFrame)

Curtain_guarded(w) ==
  IF IsNull(w.renderer) \/ IsNull(w.scene) \/ IsNull(w.camera) THEN w
  ELSE Curtain_frame(w, easeOutCubic(w.scrollProgress))

Curtain_animate(w0) == Curtain_guarded(BeginFrame(w0))

\* loadScript(src): resolves at once when a script tag for src is already
\* in the document, whatever its load state; otherwise appends the tag and
\* settles on its load or error event
loadScript(w) ==
  IF w.scriptTag # "absent" THEN [w EXCEPT !.scriptPromise = "resolved"]
  ELSE [w EXCEPT !.scriptTag = "loading", !.scriptPromise = "pending"]

\* catch (e) { console.error("[Curtain] Boot error", e) }
Curtain_catch(w) ==
  IF w.thrown # "none"
  THEN [w EXCEPT !.pc = "caught", !.bootError = w.thrown, !.thrown = "none"]
  ELSE [w EXCEPT !.pc = "done"]

\* createCurtains(); onScroll(); animate();
Curtain_bootTail(w) ==
  Then(Then(Then(w, createCurtains), onScroll), Curtain_animate)

\* mutant: the cleanup also lets go of the patches and their buffers
Curtain_cleanup_FreesPatches(w) ==
  [w EXCEPT !.listeners = @ \ {"resize", "scroll"},
            !.rendererObj.disposed = @ \/ ~IsNull(w.renderer),
            !.renderer = Null, !.scene = Null, !.camera = Null,
            !.leftCloth = Null, !.rightCloth = Null,
            !.leftPosAttr = Null, !.rightPosAttr = Null,
            !.cleanedUp = TRUE]

Curtain_cleanup(w) ==
  [w EXCEPT !.listeners = @ \ {"resize", "scroll"},
            !.rendererObj.disposed = @ \/ ~IsNull(w.renderer),
            !.renderer = Null, !.scene = Null, !.camera = Null,
            !.cleanedUp = TRUE]

(* --------------------------- ClothScene.tsx ---------------------------- *)
\* containerRef.current! is not checked: appendChild on a detached ref is a
\* TypeError, raised after scene, camera and renderer have been assigned and
\* before anything is added to the scene
Cloth_initGraphics(w) ==
  LET w1 == [w EXCEPT
               !.scene = Some(EmptyBag),
               !.camera = Some([fov |-> cameraFov,
                                aspect |-> R(w.innerWidth, w.innerHeight),
                                z |-> 4]),
               !.renderer = Some("gl"),
               !.rendererObj = NewRenderer(w)]
  IN  IF ~w.containerAttached THEN [w1 EXCEPT !.thrown = "TypeError"]
      ELSE [w1 EXCEPT !.rendererObj.inDom = TRUE,
                      !.scene = Some(SetToBag({"ambient", "dir"})),
                      !.listeners = @ \cup {"resize"}]

Cloth_initPhysics(w) ==
  [w EXCEPT !.physicsWorld = Some([steps |-> 0, maxSubSteps |-> 0, softBodies |-> 0])]

\* n objects of one name, as scene.add leaves them in the scene
Copies(name, n) == IF n = 0 THEN EmptyBag ELSE [x \in {name} |-> n]

\* createRigidBody pushes the object on rigidBodies when mass > 0; pose is
\* the pose of the three.js object, bodyPose that of its rigid body
DynamicObject(kind, row, col) ==
  [kind |-> kind,
   pose |-> [row |-> row, col |-> col, turn |-> 0],
   bodyPose |-> [row |-> row, col |-> col, turn |-> 0]]

\* the bricks of row j: numBricksLength of them, one more in an odd row
BrickRow(j) ==
  [i \in 1..(IF j % 2 = 1 THEN numBricksLength + 1 ELSE numBricksLength) |->
     DynamicObject("brick", j, i - 1)]

RECURSIVE Wall(_)
Wall(j) == IF j >= numBricksHeight THEN <<>> ELSE BrickRow(j) \o Wall(j + 1)

\* the for loop over rigidBodies of animate
syncRigid(w) ==
  Log([w EXCEPT !.rigidBodies =
         [i \in DOMAIN w.rigidBodies |->
            [w.rigidBodies[i] EXCEPT !.pose = w.rigidBodies[i].bodyPose]]],
      "rigid")

\* the wall, the cloth, its soft body, the arm, the two corner anchors and
\* the hinge of createObjects (clothPos = (-3, 3, 2)); the first call on
\* physicsWorld is the addRigidBody of the ground
createObjects(w) ==
  IF IsNull(w.physicsWorld) THEN [w EXCEPT !.thrown = "TypeError"] ELSE
  LET cw == I(clothWidth)
      ch == I(clothHeight)
      px == I(0 - 3)
      py == I(3)
      pz == I(2)
      soft == CreatePatch(<<px, RAdd(py, ch), pz>>, <<px, RAdd(py, ch), RSub(pz, cw)>>,
                          <<px, py, pz>>, <<px, py, RSub(pz, cw)>>,
                          clothNumSegmentsZ + 1, clothNumSegmentsY + 1)
      arr == RotatedPlaneArray(cw, ch, clothNumSegmentsZ, clothNumSegmentsY,
                               px, RAdd(py, RDiv(ch, I(2))), RSub(pz, RDiv(cw, I(2))))
  IN  [w EXCEPT
         !.scene = Some(Val(@) (+) SetToBag({"ground", "cloth", "base", "pylon", "arm"})
                               (+) Copies("brick", Len(Wall(0)))),
         !.cloth = Some([physicsBody |->
                           Some([soft EXCEPT !.anchors = {0, clothNumSegmentsZ}])]),
         !.clothPosAttr = Some([array |-> arr, needsUpdate |-> FALSE]),
         !.physicsWorld = Some([Val(@) EXCEPT !.softBodies = @ + 1]),
         !.rigidBodies = Wall(0) \o <<DynamicObject("arm", 0, 0)>>,
         !.hinge = Some([motorEnabled |-> FALSE, motorTarget |-> I(0)])]

\* mutant: a keydown of any other key stops the arm
keydown_ElseStop(w, code) ==
  [w EXCEPT !.armMovement = IF code = "KeyQ" THEN 1
                            ELSE IF code = "KeyA" THEN 0 - 1 ELSE 0]

keydown(w, code) ==
  LET w1 == IF code = "KeyQ" THEN [w EXCEPT !.armMovement = 1] ELSE w
  IN  IF code = "KeyA" THEN [w1 EXCEPT !.armMovement = 0 - 1] ELSE w1

keyup(w) == [w EXCEPT !.armMovement = 0]

initInput(w) == [w EXCEPT !.listeners = @ \cup {"keydown", "keyup"}]

enableAngularMotor(w) ==
  IF IsNull(w.hinge) THEN w
  ELSE Log([w EXCEPT !.hinge = Some([motorEnabled |-> TRUE,
                                     motorTarget |-> RMul(MotorSpeed, I(w.armMovement))])],
           "motor")

\* the cloth block of animate
syncCloth(w) ==
  IF ~IsNull(w.cloth) /\ ~IsNull(w.clothPosAttr)
  THEN Log(sync(w, "cloth", "clothPosAttr"), "sync")
  ELSE w

\* the block under if (physicsWorld) of the cloth animate
Cloth_physics(w) ==
  IF IsNull(w.physicsWorld) THEN w
  ELSE Then(syncCloth(Log(stepSimulation(w), "step")), syncRigid)

Cloth_animate(w0) ==
  Then(Then(Cloth_physics(enableAngularMotor(BeginFrame(w0))), render),
       requestAnimationFrame)

onWindowResize(w) ==
  IF IsNull(w.renderer) THEN w
  ELSE [w EXCEPT
          !.camera = Some([Val(@) EXCEPT !.aspect = R(w.innerWidth, w.innerHeight)]),
          !.rendererObj.size = <<w.innerWidth, w.innerHeight>>]

\* mutant: the frame loop is started before the objects are created
Cloth_bootTail_AnimateFirst(w) ==
  Then(Then(Then(Then(Then(w, Cloth_initGraphics), Cloth_initPhysics),
                 Cloth_animate), createObjects), initInput)

\* initGraphics(); initPhysics(); createObjects(); initInput(); animate();
Cloth_bootTail(w) ==
  Then(Then(Then(Then(Then(w, Cloth_initGraphics), Cloth_initPhysics),
                 createObjects), initInput), Cloth_animate)

\* the async function has no try/catch: a throw rejects its promise, which
\* nobody handles
Cloth_settle(w) ==
  IF w.thrown # "none"
  THEN [w EXCEPT !.pc = "rejected", !.bootError = w.thrown, !.thrown = "none"]
  ELSE [w EXCEPT !.pc = "done"]

Cloth_cleanup(w) ==
  [w EXCEPT !.listeners = @ \ {"resize", "keydown", "keyup"},
            !.rendererObj.disposed = @ \/ ~IsNull(w.renderer),
            !.renderer = Null,
            !.cleanedUp = TRUE]

(* ------------------------------ the machine ---------------------------- *)
Init ==
  /\ page \in Pages
  /\ containerAttached = TRUE
  /\ innerWidth = 800 /\ innerHeight = 600
  /\ scrollY = I(0)
  /\ scriptTag \in {"absent", "loading"}
  /\ scriptDefinesAmmo \in BOOLEAN
  /\ windowAmmo = FALSE
  /\ listeners = {}
  /\ rafPending = FALSE
  /\ pc = "unmounted"
  /\ scriptPromise = "none" /\ ammoPromise = "none"
  /\ cleanedUp = FALSE
  /\ bootError = "none"
  /\ renderer = Null
  /\ rendererObj = [created |-> FALSE, disposed |-> FALSE, size |-> <<0, 0>>,
                    opacity |-> "", inDom |-> FALSE, presented |-> FALSE]
  /\ scene = Null /\ camera = Null
  /\ AmmoLib = FALSE /\ physicsWorld = Null
  /\ leftCloth = Null /\ rightCloth = Null
  /\ leftPosAttr = Null /\ rightPosAttr = Null
  /\ leftRodMesh = Null /\ rightRodMesh = Null
  /\ leftRodStartX = I(0) /\ rightRodStartX = I(0) /\ slideDistance = I(0)
  /\ scrollProgress = I(0)
  /\ hinge = Null /\ armMovement = 0 /\ cloth = Null /\ clothPosAttr = Null
  /\ rigidBodies = <<>>
  /\ frames = 0 /\ frameLog = <<>> /\ frameC = I(0) /\ frameT = I(0)
  /\ stepForce = I(0)
  /\ rodUnsettledAtStep = FALSE
  /\ firstFrame = Null
  /\ rafAfterCleanup = FALSE /\ frameThrew = FALSE
  /\ lastKey = <<>>

\* --- environment
ScriptOnload ==
  /\ scriptTag = "loading"
  /\ Commit([World EXCEPT
       !.scriptTag = "loaded",
       !.windowAmmo = scriptDefinesAmmo,
       !.scriptPromise = IF @ = "pending" THEN "resolved" ELSE @])

ScriptOnerror ==
  /\ scriptTag = "loading"
  /\ Commit([World EXCEPT
       !.scriptTag = "failed",
       !.scriptPromise = IF @ = "pending" THEN "rejected" ELSE @])

AmmoResolve ==
  /\ ammoPromise = "pending"
  /\ Commit([World EXCEPT !.ammoPromise = "resolved"])

AmmoReject ==
  /\ ammoPromise = "pending"
  /\ Commit([World EXCEPT !.ammoPromise = "rejected"])

Resize ==
  \E sz \in WindowSizes :
    /\ sz # <<innerWidth, innerHeight>>
    /\ LET w == [World EXCEPT !.innerWidth = sz[1], !.innerHeight = sz[2]]
       IN  Commit(IF "resize" \in listeners
                  THEN (IF page = "curtain" THEN onResize(w) ELSE onWindowResize(w))
                  ELSE w)

\* only the curtain page is taller than the window (min-h-[200vh])
Scroll ==
  \E y \in ScrollYs :
    /\ page = "curtain"
    /\ y # scrollY
    /\ LET w == [World EXCEPT !.scrollY = y]
       IN  Commit(IF "scroll" \in listeners THEN onScroll(w) ELSE w)

KeyDown ==
  \E code \in KeyCodes :
    /\ "keydown" \in listeners
    /\ Commit([keydown(World, code) EXCEPT !.lastKey = <<"down", code>>])

KeyUp ==
  \E code \in KeyCodes :
    /\ "keyup" \in listeners
    /\ Commit([keyup(World) EXCEPT !.lastKey = <<"up", code>>])

\* --- CurtainScene: effect body up to the first await
CurtainMount ==
  /\ page = "curtain" /\ pc = "unmounted"
  /\ Commit([loadScript(Curtain_initGraphics(World)) EXCEPT !.pc = "awaitScript"])

\* a throw of the boot continuation that came out of the frame callback
NoteBootThrow(w) ==
  [w EXCEPT !.frameThrew = @ \/ (w.thrown # "none" /\ w.frames > 0)]

\* a throw of a scheduled frame is reported by the browser and dropped
NoteFrameThrow(w) ==
  [w EXCEPT !.frameThrew = @ \/ w.thrown # "none", !.thrown = "none"]

CurtainBootAfterScript ==
  /\ page = "curtain" /\ pc = "awaitScript"
  /\ scriptPromise \in {"resolved", "rejected"}
  /\ frames < MaxFrames
  /\ IF scriptPromise = "rejected"
     THEN Commit(Curtain_catch([World EXCEPT !.thrown = "Failed to load"]))
     ELSE IF windowAmmo
          THEN Commit([World EXCEPT !.ammoPromise = "pending", !.pc = "awaitAmmo"])
          ELSE Commit(Curtain_catch(NoteBootThrow(Curtain_bootTail(World))))

CurtainBootAfterAmmo ==
  /\ page = "curtain" /\ pc = "awaitAmmo"
  /\ ammoPromise \in {"resolved", "rejected"}
  /\ frames < MaxFrames
  /\ IF ammoPromise = "rejected"
     THEN Commit(Curtain_catch([World EXCEPT !.thrown = "Ammo init failed"]))
     ELSE Commit(Curtain_catch(NoteBootThrow(
            Curtain_bootTail(Curtain_initPhysics([World EXCEPT !.AmmoLib = TRUE])))))

CurtainFrame ==
  /\ page = "curtain" /\ rafPending
  /\ frames < MaxFrames
  /\ Commit(NoteFrameThrow(Curtain_animate([World EXCEPT !.rafPending = FALSE])))

\* detach: a real unmount clears containerRef.current; a development
\* (strict mode) remount runs the cleanup and leaves the ref attached
CurtainCleanup ==
  /\ page = "curtain" /\ pc # "unmounted" /\ ~cleanedUp
  /\ \E detach \in BOOLEAN :
       Commit([Curtain_cleanup(World) EXCEPT !.containerAttached = ~detach])

\* --- ClothScene
ClothMount ==
  /\ page = "cloth" /\ pc = "unmounted"
  /\ Commit([loadScript(World) EXCEPT !.pc = "awaitScript"])

ClothBootAfterScript ==
  /\ page = "cloth" /\ pc = "awaitScript"
  /\ scriptPromise \in {"resolved", "rejected"}
  /\ IF scriptPromise = "rejected"
     THEN Commit(Cloth_settle([World EXCEPT !.thrown = "Failed to load"]))
     ELSE IF ~windowAmmo
          THEN Commit(Cloth_settle([World EXCEPT !.thrown = "Ammo loader not found on window"]))
          ELSE Commit([World EXCEPT !.ammoPromise = "pending", !.pc = "awaitAmmo"])

ClothBootAfterAmmo ==
  /\ page = "cloth" /\ pc = "awaitAmmo"
  /\ ammoPromise \in {"resolved", "rejected"}
  /\ frames < MaxFrames
  /\ IF ammoPromise = "rejected"
     THEN Commit(Cloth_settle([World EXCEPT !.thrown = "Ammo init failed"]))
     ELSE Commit(Cloth_settle(NoteBootThrow(
            Cloth_bootTail([World EXCEPT !.AmmoLib = TRUE]))))

ClothFrame ==
  /\ page = "cloth" /\ rafPending
  /\ frames < MaxFrames
  /\ Commit(NoteFrameThrow(Cloth_animate([World EXCEPT !.rafPending = FALSE])))

ClothCleanup ==
  /\ page = "cloth" /\ pc # "unmounted" /\ ~cleanedUp
  /\ \E detach \in BOOLEAN :
       Commit([Cloth_cleanup(World) EXCEPT !.containerAttached = ~detach])

Next ==
  \/ ScriptOnload \/ ScriptOnerror \/ AmmoResolve \/ AmmoReject
  \/ Resize \/ Scroll \/ KeyDown \/ KeyUp
  \/ CurtainMount \/ CurtainBootAfterScript \/ CurtainBootAfterAmmo
  \/ CurtainFrame \/ CurtainCleanup
  \/ ClothMount \/ ClothBootAfterScript \/ ClothBootAfterAmmo
  \/ ClothFrame \/ ClothCleanup

Spec == Init /\ [][Next]_vars

(* ------------------------------- claims -------------------------------- *)
BootFinished == pc \in {"done", "caught", "rejected"}

\* position of a sub-step in the log of the last frame (0: it did not run)
LogPos(what) ==
  IF \E k \in 1..Len(frameLog) : frameLog[k] = what
  THEN CHOOSE k \in 1..Len(frameLog) : frameLog[k] = what
  ELSE 0

Ran(what) == LogPos(what) > 0

\* C1 (as claimed): in both scenes, once the effect cleanup has run, no
\* requestAnimationFrame(animate) is issued any more, also when the cleanup
\* ran while the boot was still awaiting the script or the engine.
C1_NoRescheduleAfterCleanup == ~rafAfterCleanup

\* C2 (as claimed): in both scenes, after the cleanup has run and the boot
\* has finished, none of the instance's window listeners is still attached
\* and every renderer the instance created has been disposed.
C2_AllReleasedAfterCleanup ==
  (cleanedUp /\ BootFinished) =>
     /\ listeners = {}
     /\ (rendererObj.created => rendererObj.disposed)

\* the engine failed to load: the script load failed, or the script has
\* loaded and window.Ammo is absent
EngineLoadFailed ==
  \/ scriptTag = "failed"
  \/ (scriptTag = "loaded" /\ ~windowAmmo)

PatchesBuilt ==
  IF page = "curtain"
  THEN /\ ~IsNull(leftCloth) /\ ~IsNull(rightCloth)
       /\ ~IsNull(leftPosAttr) /\ ~IsNull(rightPosAttr)
       /\ BagIn("leftCloth", Val(scene)) /\ BagIn("rightCloth", Val(scene))
  ELSE /\ ~IsNull(cloth) /\ ~IsNull(clothPosAttr)
       /\ ~IsNull(scene) /\ BagIn("cloth", Val(scene))

\* C3 (as claimed): when the physics engine fails to load and the scene is
\* still mounted, the boot ends with the patches created and presented as
\* static planes, the frame loop running, and no exception escaping setup.
C3_DegradesToStaticPlanes ==
  (BootFinished /\ EngineLoadFailed /\ ~cleanedUp) =>
     /\ pc # "rejected"
     /\ PatchesBuilt
     /\ rendererObj.presented
     /\ frames > 0
     /\ rafPending

\* C4 (as claimed): no execution of the frame callback of either scene
\* throws, whichever collaborator is null at that moment.
C4_FrameNeverThrows == ~frameThrew

\* C5: the control value is in range after any sequence of scroll and key
\* events: scrollProgress (and the value a curtain frame sampled) in [0, 1],
\* armMovement in {-1, 0, 1}.
C5_ControlInRange ==
  /\ RLe(I(0), scrollProgress) /\ RLe(scrollProgress, I(1))
  /\ RLe(I(0), frameC) /\ RLe(frameC, I(1))
  /\ armMovement \in {0 - 1, 0, 1}

\* a frame has sampled a control signal that a scroll beyond the travel
\* (scrollY > maxScrollPx) produced
C5_Witness ==
  /\ page = "curtain" /\ "scroll" \in listeners
  /\ RLt(I(maxScrollPx), scrollY)
  /\ scrollProgress = I(1)
  /\ Ran("sample") /\ frameC = I(1)

\* C6: at the end of every curtain frame, with c the sampled control signal:
\* the rods are at start -/+ slideDistance * ease(c), inside the travel
\* range; c = 0 gives the start positions and opacity "1"; c = 1 gives
\* start -/+ slideDistance and opacity "0"; opacity is "0" for no c < 1.
C6_RodsFollowEase ==
  (page = "curtain" /\ Ran("schedule")) =>
     LET e == easeOutCubic(frameC)
         lx == Val(leftRodMesh).x
         rx == Val(rightRodMesh).x
     IN  /\ lx = RSub(leftRodStartX, RMul(slideDistance, e))
         /\ rx = RAdd(rightRodStartX, RMul(slideDistance, e))
         /\ RLe(RSub(leftRodStartX, slideDistance), lx) /\ RLe(lx, leftRodStartX)
         /\ RLe(rightRodStartX, rx) /\ RLe(rx, RAdd(rightRodStartX, slideDistance))
         /\ (frameC = I(0) =>
               lx = leftRodStartX /\ rx = rightRodStartX /\ rendererObj.opacity = "1")
         /\ (frameC = I(1) =>
               /\ lx = RSub(leftRodStartX, slideDistance)
               /\ rx = RAdd(rightRodStartX, slideDistance)
               /\ rendererObj.opacity = "0")
         /\ (rendererObj.opacity = "0" => frameC = I(1))
         /\ rendererObj.opacity \in {"0", "1"}

\* a curtain frame ran fully open, with a real travel distance
C6_Witness ==
  /\ page = "curtain" /\ Ran("schedule")
  /\ frameC = I(1)
  /\ RLt(I(0), slideDistance)
  /\ Val(leftRodMesh).x = RSub(leftRodStartX, slideDistance)
  /\ rendererObj.opacity = "0"

\* easeOutCubic tabulated on the grid: end points exact, results in [0, 1],
\* non-decreasing
EaseTableMonotone ==
  /\ easeOutCubic(I(0)) = I(0)
  /\ easeOutCubic(I(1)) = I(1)
  /\ \A c \in EaseGrid : RLe(I(0), easeOutCubic(c)) /\ RLe(easeOutCubic(c), I(1))
  /\ \A c1 \in EaseGrid : \A c2 \in EaseGrid :
        RLe(c1, c2) => RLe(easeOutCubic(c1), easeOutCubic(c2))

\* C7: easeOutCubic is monotonically non-decreasing on [0, 1], with
\* ease(0) = 0 and ease(1) = 1, so its result stays in [0, 1]; checked on the
\* grid of control signals and on the value each frame computed.
C7_EaseMonotone ==
  /\ EaseTableMonotone
  /\ RLe(I(0), easeOutCubic(scrollProgress)) /\ RLe(easeOutCubic(scrollProgress), I(1))
  /\ (page = "curtain" /\ Ran("sample")) =>
        /\ RLe(I(0), frameT) /\ RLe(frameT, I(1))
        /\ (frameC = I(0) => frameT = I(0))
        /\ (frameC = I(1) => frameT = I(1))
        /\ \A c \in EaseGrid :
              /\ RLe(c, frameC) => RLe(easeOutCubic(c), frameT)
              /\ RLe(frameC, c) => RLe(frameT, easeOutCubic(c))

\* a frame eased a control signal strictly inside (0, 1)
C7_Witness ==
  /\ page = "curtain" /\ Ran("sample")
  /\ RLt(I(0), frameC) /\ RLt(frameC, I(1))
  /\ RLt(frameC, frameT) /\ RLt(frameT, I(1))

PatchLen(sx, sy) == (sx + 1) * (sy + 1) * 3

\* buffer triplet i holds the position of node i, for every node
InSync(mesh, attr, sx, sy) ==
  LET arr == Val(attr).array
      nodes == Val(Val(mesh).physicsBody).x
  IN  \A i \in 0..((sx + 1) * (sy + 1) - 1) :
        /\ i \in DOMAIN nodes
        /\ arr[3 * i] = nodes[i][1]
        /\ arr[3 * i + 1] = nodes[i][2]
        /\ arr[3 * i + 2] = nodes[i][3]

\* C8: every patch's vertex buffer has (segX+1)*(segY+1)*3 entries for its
\* whole life, and after a frame that stepped the physics world buffer
\* triplet i holds the stepped position of node i, for every node index i.
C8_BufferTracksNodes ==
  /\ ~IsNull(leftPosAttr) => ArrLen(Val(leftPosAttr).array) = PatchLen(segX, segY)
  /\ ~IsNull(rightPosAttr) => ArrLen(Val(rightPosAttr).array) = PatchLen(segX, segY)
  /\ ~IsNull(clothPosAttr) =>
        ArrLen(Val(clothPosAttr).array) = PatchLen(clothNumSegmentsZ, clothNumSegmentsY)
  /\ (page = "curtain" /\ Ran("step")) =>
        /\ InSync(leftCloth, leftPosAttr, segX, segY)
        /\ InSync(rightCloth, rightPosAttr, segX, segY)
  /\ (page = "cloth" /\ Ran("step")) =>
        InSync(cloth, clothPosAttr, clothNumSegmentsZ, clothNumSegmentsY)

\* two steps have moved the last node of the left curtain away from its
\* built position, and the buffer shows it there
C8_Witness ==
  /\ page = "curtain" /\ Ran("step") /\ Ran("sync")
  /\ Val(physicsWorld).steps >= 2
  /\ LET n == (segX + 1) * (segY + 1) - 1
         built == makePatch(RNeg(RDiv(computeViewSize(World).viewW, I(2))), I(0),
                            Val(leftRodMesh).y, computeViewSize(World).viewH)
     IN  /\ ~IsNull(camera)
         /\ Val(leftPosAttr).array[3 * n + 1] = Val(Val(leftCloth).physicsBody).x[n][2]
         /\ Val(leftPosAttr).array[3 * n + 1] # built.x[n][2]

\* C9 (as claimed): in the curtain scene the layout-derived state used by
\* the frame loop equals what computeViewSize yields for the current camera.
C9_LayoutMatchesCamera ==
  (page = "curtain" /\ ~IsNull(leftRodMesh) /\ ~IsNull(camera)
     /\ ~IsNull(scene) /\ ~IsNull(renderer)) =>
     LET viewW == computeViewSize(World).viewW
     IN  /\ slideDistance = RMul(viewW, I(5))
         /\ leftRodStartX = RNeg(RDiv(viewW, I(4)))
         /\ rightRodStartX = RDiv(viewW, I(4))
         /\ Val(leftPosAttr).array[0] = RNeg(RDiv(viewW, I(2)))

\* C10 (as claimed): in every curtain frame with physics the sub-steps run
\* in the listed order: sample, rods, seam forces, step (10 sub-steps),
\* vertex sync, present and schedule; so the step of a frame consumes the
\* seam force of that same frame.
C10_FixedOrder ==
  (page = "curtain" /\ Ran("step")) =>
     /\ LogPos("sample") < LogPos("rods")
     /\ LogPos("rods") < LogPos("assist")
     /\ LogPos("assist") < LogPos("step")
     /\ LogPos("step") < LogPos("sync")
     /\ LogPos("sync") < LogPos("present")
     /\ LogPos("present") < LogPos("schedule")
     /\ Val(physicsWorld).maxSubSteps = subSteps
     /\ stepForce = RNeg(RMul(I(tinyAssistForce), frameT))

RodBodies ==
  {Val(Val(m).physicsBody) :
     m \in {r \in {leftRodMesh, rightRodMesh} :
              ~IsNull(r) /\ ~IsNull(Val(r).physicsBody)}}

\* C11: in the curtain scene the physics world is never stepped with a rod
\* body whose pose was overwritten without both velocities being set to zero
\* and the body being activated afterwards; so after a step every rod body
\* is at rest, awake, and at the pose its mesh was given.
C11_RodsSettledBeforeStep ==
  /\ ~rodUnsettledAtStep
  /\ (page = "curtain" /\ Ran("step")) =>
        /\ \A b \in RodBodies : b.linVel = 0 /\ b.angVel = 0 /\ b.active
        /\ Val(Val(leftRodMesh).physicsBody).x = Val(leftRodMesh).x
        /\ Val(Val(rightRodMesh).physicsBody).x = Val(rightRodMesh).x

\* a step has consumed a left rod body that was moved away from where it
\* was built
C11_Witness ==
  /\ page = "curtain" /\ Ran("step")
  /\ Cardinality(RodBodies) = 2
  /\ Val(Val(leftRodMesh).physicsBody).x # leftRodStartX
  /\ Val(Val(leftRodMesh).physicsBody).active

SoftPatches ==
  {m \in {leftCloth, rightCloth, cloth} :
     ~IsNull(m) /\ ~IsNull(Val(m).physicsBody)}

WorldBeforePatches ==
  SoftPatches # {} =>
    /\ ~IsNull(physicsWorld)
    /\ Val(physicsWorld).softBodies = Cardinality(SoftPatches)

\* C12 (as claimed): in both scenes the first execution of the frame
\* callback finds the physics world created and at least one deformable
\* patch registered with it, and no patch exists without the world.
C12_FrameAfterPhysics ==
  /\ ~IsNull(firstFrame) =>
        Val(firstFrame).world /\ Val(firstFrame).softBodies >= 1
  /\ WorldBeforePatches

\* C12 (amended): the first execution of the frame callback finds the
\* render patches built; when the engine was loaded it also finds the
\* physics world created and a deformable patch registered with it, and in
\* the cloth scene the engine is always loaded by then; without the engine
\* the curtain scene's first frame finds no physics world and no registered
\* patch.  No deformable patch exists without the world it is registered with.
C12_FrameAfterSetup ==
  /\ ~IsNull(firstFrame) =>
        /\ Val(firstFrame).patches
        /\ (page = "cloth" => AmmoLib)
        /\ IF AmmoLib
           THEN Val(firstFrame).world /\ Val(firstFrame).softBodies >= 1
           ELSE ~Val(firstFrame).world /\ Val(firstFrame).softBodies = 0
  /\ WorldBeforePatches

\* a cloth scene whose first frame found the world and its one patch
C12_Witness ==
  /\ page = "cloth" /\ ~IsNull(firstFrame)
  /\ Val(firstFrame).world /\ Val(firstFrame).softBodies = 1
  /\ Val(firstFrame).patches

\* rigid-body poses, soft-body nodes, vertex buffers, and the world they
\* live in
Simulated ==
  <<leftRodMesh, rightRodMesh, leftCloth, rightCloth, cloth,
    leftPosAttr, rightPosAttr, clothPosAttr, rigidBodies, physicsWorld, hinge>>

Layout == <<slideDistance, leftRodStartX, rightRodStartX>>

BootState ==
  <<pc, scriptPromise, ammoPromise, scriptTag, windowAmmo, AmmoLib, bootError,
    cleanedUp, rafPending, listeners>>

\* C13: the simulated state changes only in a step that runs the frame
\* callback or continues the setup; a scroll event changes nothing but
\* scrollProgress, a key event nothing but armMovement, a resize nothing but
\* the camera's aspect and the renderer's size, and the cleanup leaves every
\* body, patch and vertex buffer as it was.
C13_OnlyFramesSimulate ==
  [][/\ Simulated' # Simulated => (frames' = frames + 1 \/ pc' # pc)
     /\ scrollY' # scrollY =>
           UNCHANGED <<Simulated, Layout, BootState, armMovement,
                       renderer, rendererObj, scene, camera, frames>>
     /\ lastKey' # lastKey =>
           UNCHANGED <<Simulated, Layout, BootState, scrollProgress,
                       renderer, rendererObj, scene, camera, frames>>
     /\ <<innerWidth, innerHeight>>' # <<innerWidth, innerHeight>> =>
           /\ UNCHANGED <<Simulated, Layout, BootState, scrollProgress,
                          armMovement, renderer, scene, frames>>
           /\ IsNull(camera') = IsNull(camera)
           /\ ~IsNull(camera) =>
                 [Val(camera') EXCEPT !.aspect = 0] = [Val(camera) EXCEPT !.aspect = 0]
           /\ [rendererObj' EXCEPT !.size = 0] = [rendererObj EXCEPT !.size = 0]
     /\ cleanedUp' # cleanedUp =>
           UNCHANGED <<Simulated, Layout, scrollProgress, armMovement, frames>>
    ]_vars

\* a curtain that was stepped, then scrolled and resized, then cleaned up,
\* and still has its patches
C13_Witness ==
  /\ page = "curtain" /\ cleanedUp /\ pc = "done"
  /\ ~IsNull(physicsWorld) /\ Val(physicsWorld).steps >= 1
  /\ scrollProgress # frameC
  /\ rendererObj.size = <<1200, 600>>
  /\ InSync(leftCloth, leftPosAttr, segX, segY)

\* C14 (as claimed): whenever the promise of loadScript has resolved, the
\* script has finished loading, also when the call found the tag of an
\* earlier call still loading; so the boot never reaches its check of
\* window.Ammo before the engine script has run.
C14_ResolvedMeansLoaded ==
  scriptPromise = "resolved" => scriptTag = "loaded"

\* the drive value after key event ev, prev being the value before it
Drive(prev, ev) ==
  IF ev[1] = "up" THEN 0
  ELSE IF ev[2] = "KeyQ" THEN 1
  ELSE IF ev[2] = "KeyA" THEN 0 - 1
  ELSE prev

\* C15: in the cloth scene the drive value changes only with a key event:
\* to 1 on a keydown of KeyQ, to -1 on a keydown of KeyA, to 0 on a keyup of
\* any key, and not at all on a keydown of another key; every frame hands
\* the hinge motor 0.8 times the drive value it finds, and the motor target
\* changes in frames only.  So after a keyup the drive value is 0 whatever
\* key was released.
C15_MotorFollowsLastKey ==
  /\ [][/\ armMovement' = IF lastKey' = lastKey THEN armMovement
                           ELSE Drive(armMovement, lastKey')
        /\ (frames' = frames + 1 /\ ~IsNull(hinge')) =>
              /\ Val(hinge').motorEnabled
              /\ Val(hinge').motorTarget = RMul(R(4, 5), I(armMovement))
        /\ frames' = frames => hinge' = hinge
       ]_vars
  /\ [](/\ armMovement \in {0 - 1, 0, 1}
        /\ (~IsNull(lastKey) /\ lastKey[1] = "up") => armMovement = 0
        /\ lastKey = <<"down", "KeyQ">> => armMovement = 1
        /\ lastKey = <<"down", "KeyA">> => armMovement = 0 - 1)

\* a frame drove the motor at 0.8 with KeyQ down, then another key was
\* released and the drive value is 0
C15_Witness ==
  /\ page = "cloth" /\ ~IsNull(hinge)
  /\ Val(hinge).motorTarget = R(4, 5)
  /\ lastKey = <<"up", "KeyZ">>
  /\ armMovement = 0

====
